---------------------------- MODULE Spec2Model ----------------------------
(***************************************************************************)
(* Path exploration and coverage strategies of p4pktgen                    *)
(* (src/p4pktgen/core/strategy.py): ParserGraphVisitor,                    *)
(* ControlGraphVisitor, PathCoverageGraphVisitor, EdgeCoverageGraphVisitor *)
(* driven by the depth-first traversal engine of p4pktgen.util.graph.      *)
(*                                                                         *)
(* The engine (GraphVisitor's driver), record_test_case, Config,           *)
(* Statistics and the path solver live outside strategy.py.  The engine    *)
(* and record_test_case are modelled from the design document; the solver  *)
(* is an oracle whose answers are chosen nondeterministically.             *)
(***************************************************************************)
EXTENDS Integers, Sequences, FiniteSets, TLC

VARIABLES
    strategy,            \* "parser" | "path" | "edge": the visitor driving the engine
    config,              \* Config(): the options read by strategy.py
    hlir,                \* parser metadata: header stack sizes, extracts per state
    stack,               \* engine: LIFO stack of frames (remaining sibling edges)
    path,                \* engine: the current path (sequence of edges)
    pc,                  \* position of the engine / of the running visit
    vres,                \* VisitResult returned by the last visit
    checkpoints,         \* path_solver: stack of outstanding checkpoints
    pushes,              \* number of path_solver.push() calls so far
    pops,                \* number of path_solver.pop() calls so far
    pop_empty,           \* TRUE once pop() was called with no checkpoint outstanding
    n_constraints,       \* number of path_solver.add_path_constraints() calls
    n_quick,             \* number of path_solver.try_quick_solve() calls
    n_solve,             \* number of path_solver.solve_path() calls
    n_reset,             \* number of path_solver.solver.reset() calls
    num_test_cases,      \* Statistics().num_test_cases
    writes,              \* number of test_case_writer.write() calls
    table_paths,         \* number of table_solver.add_path() calls
    call_writes,         \* test cases written by the current / last generate_test_case
    gen_results,         \* generate_test_case's local list `results`
    quick,               \* answer of the last try_quick_solve ("NONE": not SUCCESS)
    last_result,         \* result returned by the last generate_test_case ("NONE": none)
    visits_done,         \* number of visit() calls that returned
    results,             \* self.results: (parser_path, control_path) -> result
    success_path_count,  \* self.success_path_count
    done_edges,          \* EdgeCoverageGraphVisitor.done_edges
    edge_visits,         \* EdgeCoverageGraphVisitor.edge_visits
    stats,               \* Statistics(): the counters record_stats updates
    vl_last,             \* last answer of constrain_last_extract_vl_lengths in the call
    all_paths,           \* ParserGraphVisitor.all_paths
    failed_assert,       \* "none", or the source line of the assert that failed
    pre_call             \* a call of ParserGraphVisitor.preprocess_edges and its result

\* what no step of a traversal changes
fixedVars  == <<strategy, config, hlir, pre_call>>
engineVars == <<stack, path, pc, vres>>
cpVars     == <<checkpoints, pushes, pops, pop_empty>>
callVars   == <<n_constraints, n_quick, n_solve, n_reset>>
outputVars == <<num_test_cases, writes, table_paths, call_writes>>
visitVars  == <<quick, last_result, visits_done, vl_last>>
coverVars  == <<results, success_path_count, done_edges, edge_visits, stats>>
vars == <<fixedVars, engineVars, cpVars, callVars, outputVars, visitVars,
          coverVars, gen_results, all_paths, failed_assert>>

---------------------------------------------------------------------------
(* Bounds of the model *)

\* largest test-case cap drawn (global and per path)
MaxCap == 2
\* largest per-parser-path success cap drawn
MaxPaths == 1
\* iterations of the generation loop explored per call
MaxIter == 3
\* largest declared header stack size drawn
MaxStackSize == 2
\* longest path prefix / candidate edge list drawn for preprocess_edges
MaxLen == 3

\* most visit() calls drawn when record_stats and visit_result are called on
\* arbitrary paths and results
MaxCalls == 2

\* Python's None for an unset option
None == -1

---------------------------------------------------------------------------
(* Sequence helpers *)

Last(s) == s[Len(s)]
Front(s) == SubSeq(s, 1, Len(s) - 1)
Reverse(s) == [i \in 1..Len(s) |-> s[Len(s) + 1 - i]]
Range(s) == {s[i] : i \in 1..Len(s)}

---------------------------------------------------------------------------
(* TestPathResult and VisitResult *)

SUCCESS == "SUCCESS"
NO_PACKET_FOUND == "NO_PACKET_FOUND"
\* any other, opaque solver-reported kind
OTHER_RESULT == "OTHER_RESULT"
TestPathResults == {SUCCESS, NO_PACKET_FOUND, OTHER_RESULT}

CONTINUE == "CONTINUE"
BACKTRACK == "BACKTRACK"
ABORT == "ABORT"

---------------------------------------------------------------------------
(* The graphs explored.  Edges are identified by numbers (stable, hashable *)
(* identity); 1..5 are the control graph, 11..17 the parser graph.         *)

ControlEdges == 1..5
ParserEdges == 11..17
Edges == ControlEdges \cup ParserEdges

src == [e \in Edges |->
          CASE e = 1          -> "n0"
            [] e \in {2, 3}   -> "n1"
            [] e \in {4, 5}   -> "n2"
            [] e = 11         -> "start"
            [] e \in {12, 13} -> "s1"
            [] e \in {14, 15} -> "s2"
            [] e \in {16, 17} -> "s3"]

dst == [e \in Edges |->
          CASE e = 1          -> "n1"
            [] e \in {2, 3}   -> "n2"
            [] e \in {4, 5}   -> "end"
            [] e = 11         -> "s1"
            [] e = 12         -> "s2"
            [] e = 14         -> "s3"
            [] e \in {13, 15, 16, 17} -> "sink"]

\* isinstance(edge, ParserErrorTransition)
IsErrorTransition(e) == e \in {15, 17}

ParserStates == {"start", "s1", "s2", "s3"}
Nodes == {"n0", "n1", "n2", "end"} \cup ParserStates \cup {"sink"}

\* graph.get_neighbors(node): the outgoing edges of a node, in declared order
get_neighbors(n) ==
    CASE n = "n0"    -> <<1>>
      [] n = "n1"    -> <<2, 3>>
      [] n = "n2"    -> <<4, 5>>
      [] n = "start" -> <<11>>
      [] n = "s1"    -> <<12, 13>>
      [] n = "s2"    -> <<14, 15>>
      [] n = "s3"    -> <<16, 17>>
      [] OTHER       -> <<>>

\* v_start and v_end of the traversal a strategy drives
StartNode(strat) == IF strat = "parser" THEN "start" ELSE "n0"
EndNode(strat) == IF strat = "parser" THEN "sink" ELSE "end"

\* the completeness predicate the graph domain supplies for the visited path
IsComplete(strat, p) == Len(p) > 0 /\ dst[Last(p)] = EndNode(strat)

---------------------------------------------------------------------------
(* Module-level helpers of strategy.py *)

record_path_result(result, is_complete_control_path) ==
    IF result # SUCCESS \/ is_complete_control_path THEN TRUE ELSE FALSE

\* p4pktgen.core.test_cases.record_test_case: the recording policy, which
\* also gates continued output emission
record_test_case(result, is_complete_control_path) ==
    (result = SUCCESS /\ is_complete_control_path) \/ result # SUCCESS

ge_than_not_none(lhs, rhs) ==
    IF rhs = None \/ lhs = None THEN FALSE ELSE lhs >= rhs

---------------------------------------------------------------------------
(* ParserGraphVisitor *)

Stacks == {"h", "g"}
\* state.header_stack_extracts: the lists of extracted stacks a state may carry
ExtractLists == {<<>>, <<"h">>, <<"h", "g">>}

RECURSIVE AddExtracts(_, _)
\* for extract in state.header_stack_extracts: stack_counts[extract] += 1
AddExtracts(stack_counts, extracts) ==
    IF extracts = <<>> THEN stack_counts
    ELSE AddExtracts([stack_counts EXCEPT ![Head(extracts)] = @ + 1],
                     Tail(extracts))

\* ParserGraphVisitor.count
count(stack_counts, state_name) ==
    IF state_name # "sink"
    THEN AddExtracts(stack_counts, hlir.extracts[state_name])
    ELSE stack_counts

RECURSIVE CountDsts(_, _)
\* for e in path_prefix: self.count(stack_counts, e.dst)
CountDsts(stack_counts, edges) ==
    IF edges = <<>> THEN stack_counts
    ELSE CountDsts(count(stack_counts, dst[Head(edges)]), Tail(edges))

\* stack_counts after the counting block of preprocess_edges (defaultdict(int))
StackCounts(path_prefix) ==
    LET zero == [s \in Stacks |-> 0]
    IN  IF Len(path_prefix) > 0
        THEN CountDsts(count(zero, src[path_prefix[1]]), path_prefix)
        ELSE zero

\* fault: a count equal to the declared size already counts as overflow
OverExtracted_OffByOne(stack_counts) ==
    \E s \in Stacks : hlir.size[s] <= stack_counts[s]

\* any(self.hlir.get_header_stack(stack).size < count for stack, count in ...)
OverExtracted(stack_counts) ==
    \E s \in Stacks : hlir.size[s] < stack_counts[s]

\* ParserGraphVisitor.preprocess_edges
Parser_preprocess_edges(path_prefix, onward_edges) ==
    IF OverExtracted(StackCounts(path_prefix))
    THEN SelectSeq(onward_edges, IsErrorTransition)
    ELSE onward_edges

\* fault: every visited path is appended, complete or not
Parser_visit_Always(paths, p, is_complete_path) == Append(paths, p)

\* ParserGraphVisitor.visit: the new value of all_paths
Parser_visit(paths, p, is_complete_path) ==
    IF is_complete_path THEN Append(paths, p) ELSE paths

---------------------------------------------------------------------------
(* The path solver's checkpoint stack *)

\* path_solver.push(): a checkpoint is identified by who pushed it and where
SolverPush(cp, id) == Append(cp, id)
\* path_solver.pop()
SolverPop(cp) == IF cp = <<>> THEN cp ELSE Front(cp)

VisitCheckpoint(p) == [kind |-> "visit", path |-> p]
RandomCheckpoint(p) == [kind |-> "random", path |-> p]

---------------------------------------------------------------------------
(* ControlGraphVisitor *)

\* fault: an entry already in the map is kept
RecordResults_KeepFirst(res, control_path, is_complete_control_path, result) ==
    IF /\ record_path_result(result, is_complete_control_path)
       /\ control_path \notin DOMAIN res
    THEN [p \in DOMAIN res \cup {control_path} |->
             IF p = control_path THEN result ELSE res[p]]
    ELSE res

\* record_stats: the new value of self.results
RecordResults(res, control_path, is_complete_control_path, result) ==
    IF record_path_result(result, is_complete_control_path)
    THEN [p \in DOMAIN res \cup {control_path} |->
             IF p = control_path THEN result ELSE res[p]]
    ELSE res

\* record_stats: the new value of self.success_path_count
RecordSuccessCount(spc, is_complete_control_path, result) ==
    IF /\ record_path_result(result, is_complete_control_path)
       /\ result = SUCCESS /\ is_complete_control_path
    THEN spc + 1
    ELSE spc

\* Statistics() before the first record_stats
NoStats ==
    [avg_full_path_len |-> [n |-> 0, total |-> 0],
     avg_unsat_path_len |-> [n |-> 0, total |-> 0],
     stats_per_control_path_edge |-> [e \in Edges |-> 0],
     num_covered_edges |-> 0,
     count_unsat_paths |-> 0,
     stats |-> [r \in TestPathResults |-> 0]]

\* record_stats: the new value of the counters of Statistics()
RecordStatistics(st, control_path, is_complete_control_path, result) ==
    LET len == Len(control_path)
        on_path == Range(control_path)
        st1 == IF result = SUCCESS /\ is_complete_control_path
               THEN [st EXCEPT
                       !.avg_full_path_len =
                           [n |-> @.n + 1, total |-> @.total + len],
                       !.num_covered_edges = @ + Cardinality(
                           {e \in on_path : st.stats_per_control_path_edge[e] = 0}),
                       !.stats_per_control_path_edge =
                           [e \in Edges |-> IF e \in on_path THEN @[e] + 1 ELSE @[e]]]
               ELSE st
        st2 == IF result = NO_PACKET_FOUND
               THEN [st1 EXCEPT
                       !.avg_unsat_path_len =
                           [n |-> @.n + 1, total |-> @.total + len],
                       !.count_unsat_paths = @ + 1]
               ELSE st1
    IN  IF record_path_result(result, is_complete_control_path)
        THEN [st2 EXCEPT !.stats[result] = @ + 1]
        ELSE st2

\* ControlGraphVisitor.record_stats
record_stats(control_path, is_complete_control_path, result) ==
    /\ results' = RecordResults(results, control_path,
                                is_complete_control_path, result)
    /\ success_path_count' = RecordSuccessCount(success_path_count,
                                is_complete_control_path, result)
    /\ stats' = RecordStatistics(stats, control_path,
                                is_complete_control_path, result)

\* fault: the per-parser-path cap is tested before the global cap
visit_result_PathsFirst(result, ntc, spc) ==
    IF ge_than_not_none(spc, config.max_paths_per_parser_path) THEN BACKTRACK
    ELSE IF ge_than_not_none(ntc, config.num_test_cases) THEN ABORT
    ELSE IF result # SUCCESS THEN BACKTRACK
    ELSE CONTINUE

\* ControlGraphVisitor.visit_result, on the counters it reads
visit_result(result, ntc, spc) ==
    IF ge_than_not_none(ntc, config.num_test_cases) THEN ABORT
    ELSE IF ge_than_not_none(spc, config.max_paths_per_parser_path) THEN BACKTRACK
    ELSE IF result # SUCCESS THEN BACKTRACK
    ELSE CONTINUE

---------------------------------------------------------------------------
(* PathCoverageGraphVisitor and EdgeCoverageGraphVisitor *)

PathCoverage_preprocess_edges(p, edges) == edges

\* position of x among the elements of the sorted sequence t: after every
\* element whose key is not larger (Python's sorted() is stable)
InsertByKey(x, t, key) ==
    LET k == Cardinality({i \in 1..Len(t) : key[t[i]] <= key[x]})
    IN  SubSeq(t, 1, k) \o <<x>> \o SubSeq(t, k + 1, Len(t))

RECURSIVE sorted(_, _)
\* sorted(edges, key=lambda e: self.edge_visits[e])
sorted(s, key) ==
    IF s = <<>> THEN <<>>
    ELSE InsertByKey(Last(s), sorted(Front(s), key), key)

\* EdgeCoverageGraphVisitor.preprocess_edges
EdgeCoverage_preprocess_edges(p, edges) ==
    LET IsDone(e) == e \in done_edges
        NotDone(e) == e \notin done_edges
        least_visits_order ==
            sorted(SelectSeq(edges, NotDone), edge_visits)
                \o sorted(SelectSeq(edges, IsDone), edge_visits)
    IN  Reverse(least_visits_order)

\* fault: the visit counts of the path's edges are not looked at
SkipPath_FinalDoneOnly(control_path) == Last(control_path) \in done_edges

\* the skip test of EdgeCoverageGraphVisitor.visit
SkipPath(control_path) ==
    /\ Last(control_path) \in done_edges
    /\ \A i \in 1..Len(control_path) : edge_visits[control_path[i]] > 0

\* fault: the visit counts are left as they were
IncrementVisits_None(ev, control_path) == ev

RECURSIVE IncrementVisits(_, _)
\* for edge in control_path: self.edge_visits[edge] += 1
IncrementVisits(ev, control_path) ==
    IF control_path = <<>> THEN ev
    ELSE IncrementVisits([ev EXCEPT ![Head(control_path)] = @ + 1],
                         Tail(control_path))

\* all(ce in self.done_edges for ce in self.graph.get_neighbors(edge.dst))
AllChildrenDone(done, edge) ==
    \A ce \in Range(get_neighbors(dst[edge])) : ce \in done

RECURSIVE MarkParents_Unconditional(_, _)
\* fault: every edge of the path is marked done, whatever its children
MarkParents_Unconditional(done, prefix) ==
    IF prefix = <<>> THEN done
    ELSE MarkParents_Unconditional(done \cup {Last(prefix)}, Front(prefix))

RECURSIVE MarkParents(_, _)
\* for edge in reversed(control_path[:-1]): mark it done if all children are
MarkParents(done, prefix) ==
    IF prefix = <<>> THEN done
    ELSE MarkParents(IF AllChildrenDone(done, Last(prefix))
                     THEN done \cup {Last(prefix)} ELSE done,
                     Front(prefix))

\* fault: done_edges is replaced by the final edge instead of growing
MarkDone_Replace(done, control_path) == {Last(control_path)}

\* fault: only the final edge is marked, doneness is not propagated
MarkDone_FinalOnly(done, control_path) == done \cup {Last(control_path)}

\* the done-edge update of EdgeCoverageGraphVisitor.visit
MarkDone(done, control_path) ==
    MarkParents(done \cup {Last(control_path)}, Front(control_path))

\* fault: the checkpoint around fix_random_constraints is never popped
FixRandomScope_NoPop(cp, control_path) ==
    SolverPush(cp, [kind |-> "random", path |-> control_path])

\* the checkpoint taken around fix_random_constraints in one iteration of
\* generate_test_case's loop (complete paths only): push ... pop
FixRandomScope(cp, control_path) ==
    SolverPop(SolverPush(cp, RandomCheckpoint(control_path)))

\* the push that opens visit() in both control strategies
VisitPush(cp, control_path) == SolverPush(cp, VisitCheckpoint(control_path))

\* fault: backtrack() forgets to pop
PathCoverage_backtrack_NoPop(cp) == cp

\* PathCoverageGraphVisitor.backtrack / EdgeCoverageGraphVisitor.backtrack /
\* ParserGraphVisitor.backtrack: the new checkpoint stack
PathCoverage_backtrack(cp) == SolverPop(cp)
EdgeCoverage_backtrack(cp) == SolverPop(cp)
Parser_backtrack(cp) == cp

---------------------------------------------------------------------------
(* Dispatch on the strategy selected for the traversal *)

preprocess_edges(p, edges) ==
    CASE strategy = "parser" -> Parser_preprocess_edges(p, edges)
      [] strategy = "path"   -> PathCoverage_preprocess_edges(p, edges)
      [] strategy = "edge"   -> EdgeCoverage_preprocess_edges(p, edges)

\* strategy.backtrack(), as the engine calls it
StrategyBacktrack ==
    CASE strategy = "parser" ->
            /\ checkpoints' = Parser_backtrack(checkpoints)
            /\ UNCHANGED <<pushes, pops, pop_empty>>
      [] strategy = "path" ->
            /\ checkpoints' = PathCoverage_backtrack(checkpoints)
            /\ pops' = pops + 1
            /\ pop_empty' = (pop_empty \/ checkpoints = <<>>)
            /\ UNCHANGED pushes
      [] strategy = "edge" ->
            /\ checkpoints' = EdgeCoverage_backtrack(checkpoints)
            /\ pops' = pops + 1
            /\ pop_empty' = (pop_empty \/ checkpoints = <<>>)
            /\ UNCHANGED pushes

---------------------------------------------------------------------------
(* Initial states *)

CapValues == {None} \cup 0..MaxCap
PathsCapValues == {None} \cup 0..MaxPaths

Configs ==
    [num_test_cases            : CapValues,
     max_test_cases_per_path   : CapValues,
     do_consolidate_tables     : BOOLEAN,
     max_paths_per_parser_path : PathsCapValues,
     incremental               : BOOLEAN]

DefaultConfig ==
    [num_test_cases |-> None, max_test_cases_per_path |-> None,
     do_consolidate_tables |-> FALSE, max_paths_per_parser_path |-> None,
     incremental |-> FALSE]

Hlirs ==
    [size     : [Stacks -> 1..MaxStackSize],
     extracts : [ParserStates -> ExtractLists]]

DefaultHlir ==
    [size |-> [s \in Stacks |-> 1], extracts |-> [n \in ParserStates |-> <<>>]]

\* the state after the visitors' constructors and before the engine's first
\* step, except for the choice of strategy, options and metadata
InitCommon ==
    /\ path = <<>>
    /\ vres = CONTINUE
    /\ checkpoints = <<>>
    /\ pushes = 0 /\ pops = 0 /\ pop_empty = FALSE
    /\ n_constraints = 0 /\ n_quick = 0 /\ n_solve = 0 /\ n_reset = 0
    /\ num_test_cases = 0 /\ writes = 0 /\ table_paths = 0 /\ call_writes = 0
    /\ gen_results = <<>>
    /\ quick = "NONE"
    /\ last_result = "NONE"
    /\ visits_done = 0
    /\ vl_last = "none"
    /\ stats = NoStats
    /\ results = <<>>
    /\ success_path_count = 0
    /\ done_edges = {}
    /\ edge_visits = [e \in Edges |-> 0]
    /\ all_paths = <<>>
    /\ failed_assert = "none"

\* the engine's first frame: the entry node's edges, pushed in the reverse of
\* the order preprocess_edges returned
InitEngine ==
    /\ pc = "loop"
    /\ stack = <<Reverse(preprocess_edges(<<>>, get_neighbors(StartNode(strategy))))>>

NoCall == [prefix |-> <<>>, edges |-> <<>>, result |-> <<>>, called |-> FALSE]

\* a control-graph traversal under PathCoverage or EdgeCoverage
Init ==
    /\ strategy \in {"path", "edge"}
    /\ config \in Configs
    /\ hlir = DefaultHlir
    /\ pre_call = NoCall
    /\ InitCommon
    /\ InitEngine

\* the parser-graph traversal under ParserGraphVisitor
InitParser ==
    /\ strategy = "parser"
    /\ config = DefaultConfig
    /\ hlir \in Hlirs
    /\ pre_call = NoCall
    /\ InitCommon
    /\ InitEngine

---------------------------------------------------------------------------
(* The engine takes the next edge of the top frame and calls visit *)

PopEdgeEnabled == pc = "loop" /\ stack # <<>> /\ Last(stack) # <<>>
NextEdge == Last(Last(stack))
NewPath == Append(path, NextEdge)
PoppedStack == [stack EXCEPT ![Len(stack)] = Front(@)]

\* the engine's part of a visit step
TakeEdge ==
    /\ PopEdgeEnabled
    /\ stack' = PoppedStack
    /\ path' = NewPath

\* visit() of the parser strategy
ParserVisit ==
    /\ strategy = "parser"
    /\ TakeEdge
    /\ all_paths' = Parser_visit(all_paths, NewPath, IsComplete(strategy, NewPath))
    /\ vres' = CONTINUE
    /\ pc' = "visited"
    /\ visits_done' = visits_done + 1
    /\ UNCHANGED <<fixedVars, cpVars, callVars, outputVars, quick, last_result,
                   vl_last, coverVars, gen_results, failed_assert>>

\* what follows generate_test_case in visit(): record_stats, the coverage
\* update of EdgeCoverageGraphVisitor and visit_result.  ntc is the value of
\* Statistics().num_test_cases after generate_test_case.
FinishVisit(control_path, result, ntc) ==
    LET c == IsComplete(strategy, control_path)
        spc == RecordSuccessCount(success_path_count, c, result)
        counted == strategy = "edge" /\ record_test_case(result, c)
                       /\ result = SUCCESS
    IN  /\ last_result' = result
        /\ record_stats(control_path, c, result)
        /\ IF counted /\ ~c
           THEN \* assert is_complete_control_path
                /\ failed_assert' = "L310"
                /\ pc' = "assert_failed"
                /\ UNCHANGED <<edge_visits, done_edges, vres, visits_done>>
           ELSE /\ edge_visits' = IF counted
                                  THEN IncrementVisits(edge_visits, control_path)
                                  ELSE edge_visits
                /\ done_edges' = IF counted
                                 THEN MarkDone(done_edges, control_path)
                                 ELSE done_edges
                /\ vres' = visit_result(result, ntc, spc)
                /\ pc' = "visited"
                /\ visits_done' = visits_done + 1
                /\ UNCHANGED failed_assert

\* EdgeCoverageGraphVisitor.visit when the path is skipped
VisitSkip ==
    /\ strategy = "edge"
    /\ TakeEdge
    /\ SkipPath(NewPath)
    /\ checkpoints' = VisitPush(checkpoints, NewPath)
    /\ pushes' = pushes + 1
    /\ vres' = BACKTRACK
    /\ pc' = "visited"
    /\ quick' = "NONE"
    /\ last_result' = "NONE"
    /\ vl_last' = "none"
    /\ visits_done' = visits_done + 1
    /\ UNCHANGED <<fixedVars, pops, pop_empty, callVars, outputVars, coverVars,
                   gen_results, all_paths, failed_assert>>

\* the answers try_quick_solve may give: SUCCESS or anything else
QuickResults == {SUCCESS, "NONE"}

\* fault: the pre-check's SUCCESS does not end the call
EarlyReturn_Never(result) == FALSE

\* if result == TestPathResult.SUCCESS: ... return result
EarlyReturn(result) == result = SUCCESS

\* visit() of a control strategy up to the feasibility pre-check: push,
\* then generate_test_case's add_path_constraints and try_quick_solve,
\* which answers q
BeginGenerate(q) ==
    /\ strategy \in {"path", "edge"}
    /\ TakeEdge
    /\ strategy = "edge" => ~SkipPath(NewPath)
    /\ checkpoints' = VisitPush(checkpoints, NewPath)
    /\ pushes' = pushes + 1
    /\ n_constraints' = n_constraints + 1
    /\ n_quick' = n_quick + 1
    /\ quick' = q
    /\ call_writes' = 0
    /\ vl_last' = "none"
    /\ UNCHANGED <<fixedVars, pops, pop_empty, n_solve, n_reset,
                   num_test_cases, writes, table_paths, gen_results, all_paths>>

\* try_quick_solve reports SUCCESS on an incomplete path: return at once
VisitQuickSuccess ==
    \E q \in QuickResults :
        /\ BeginGenerate(q)
        /\ EarlyReturn(q)
        /\ ~IsComplete(strategy, NewPath)
        /\ FinishVisit(NewPath, q, num_test_cases)

\* try_quick_solve reports SUCCESS on a complete path: the assert of
\* generate_test_case fails
VisitQuickAssert ==
    \E q \in QuickResults :
        /\ BeginGenerate(q)
        /\ EarlyReturn(q)
        /\ IsComplete(strategy, NewPath)
        /\ failed_assert' = "L99"
        /\ pc' = "assert_failed"
        /\ UNCHANGED <<vres, last_result, visits_done, coverVars>>

\* fault: an unset per-path cap is let through
ConfigConflict_AllowNone ==
    /\ config.do_consolidate_tables
    /\ config.max_test_cases_per_path \notin {1, None}

\* do_consolidate_tables and max_path_test_cases != 1
ConfigConflict ==
    config.do_consolidate_tables /\ config.max_test_cases_per_path # 1

\* try_quick_solve does not report SUCCESS and the options are compatible:
\* enter the generation loop
VisitEnterLoop ==
    \E q \in QuickResults :
        /\ BeginGenerate(q)
        /\ ~EarlyReturn(q)
        /\ ~ConfigConflict
        /\ pc' = "gen"
        /\ UNCHANGED <<vres, last_result, visits_done, coverVars, failed_assert>>

\* assert not (do_consolidate_tables and max_path_test_cases != 1) fails
VisitConfigAssert ==
    \E q \in QuickResults :
        /\ BeginGenerate(q)
        /\ ~EarlyReturn(q)
        /\ ConfigConflict
        /\ failed_assert' = "L114"
        /\ pc' = "assert_failed"
        /\ UNCHANGED <<vres, last_result, visits_done, coverVars>>

---------------------------------------------------------------------------
(* The generation loop of generate_test_case, one iteration per step.      *)
(* result is the classification path_solver.generate_test_case returns,    *)
(* more_vl the answer of constrain_last_extract_vl_lengths.                *)

\* fault: the loop does not stop at the caps
Iteration_NoCaps(result, more_vl) ==
    LET c == IsComplete(strategy, path)
    IN  IF ~record_test_case(result, c)
        THEN [brk |-> TRUE, registered |-> 0, written |-> 0, asked |-> FALSE]
        ELSE IF config.do_consolidate_tables
        THEN [brk |-> TRUE, registered |-> 1, written |-> 0, asked |-> FALSE]
        ELSE IF result = NO_PACKET_FOUND
        THEN [brk |-> TRUE, registered |-> 0, written |-> 1, asked |-> FALSE]
        ELSE [brk |-> FALSE, registered |-> 0, written |-> 1, asked |-> TRUE]

\* fault: table-consolidation mode writes the test case like the normal mode
Iteration_NoConsolidation(result, more_vl) ==
    LET c == IsComplete(strategy, path)
        n == Len(gen_results) + 1
    IN  IF ~record_test_case(result, c)
        THEN [brk |-> TRUE, registered |-> 0, written |-> 0, asked |-> FALSE]
        ELSE IF \/ num_test_cases + 1 = config.num_test_cases
                \/ n = config.max_test_cases_per_path
                \/ result = NO_PACKET_FOUND
        THEN [brk |-> TRUE, registered |-> 0, written |-> 1, asked |-> FALSE]
        ELSE IF ~more_vl /\ config.max_test_cases_per_path = 0
        THEN [brk |-> TRUE, registered |-> 0, written |-> 1, asked |-> TRUE]
        ELSE [brk |-> FALSE, registered |-> 0, written |-> 1, asked |-> TRUE]

\* Statistics().num_test_cases == max_test_cases, after the increment to ntc
GlobalCapStops(ntc) == ntc = config.num_test_cases

\* where one iteration of the loop leaves it: which exit it takes, what it
\* emitted on the way, and whether it got as far as asking
\* constrain_last_extract_vl_lengths
Iteration(result, more_vl) ==
    LET c == IsComplete(strategy, path)
        n == Len(gen_results) + 1
    IN  IF ~record_test_case(result, c)
        THEN [brk |-> TRUE, registered |-> 0, written |-> 0, asked |-> FALSE]
        ELSE IF config.do_consolidate_tables
        THEN [brk |-> TRUE, registered |-> 1, written |-> 0, asked |-> FALSE]
        ELSE IF \/ GlobalCapStops(num_test_cases + 1)
                \/ n = config.max_test_cases_per_path
                \/ result = NO_PACKET_FOUND
        THEN [brk |-> TRUE, registered |-> 0, written |-> 1, asked |-> FALSE]
        ELSE IF ~more_vl /\ config.max_test_cases_per_path = 0
        THEN [brk |-> TRUE, registered |-> 0, written |-> 1, asked |-> TRUE]
        ELSE [brk |-> FALSE, registered |-> 0, written |-> 1, asked |-> TRUE]

\* the solver calls and the output of one iteration
IterationEffects(result, it) ==
    LET c == IsComplete(strategy, path)
    IN  /\ pc = "gen"
        /\ Len(gen_results) < MaxIter
        /\ n_solve' = n_solve + 1
        /\ IF c
           THEN /\ checkpoints' = FixRandomScope(checkpoints, path)
                /\ pushes' = pushes + 1
                /\ pops' = pops + 1
                /\ UNCHANGED pop_empty
           ELSE UNCHANGED cpVars
        /\ table_paths' = table_paths + it.registered
        /\ writes' = writes + it.written
        /\ num_test_cases' = num_test_cases + it.written
        /\ call_writes' = call_writes + it.written
        /\ UNCHANGED <<fixedVars, stack, path, n_constraints, n_quick, quick,
                       all_paths>>

\* what constrain_last_extract_vl_lengths answered, if the iteration asked
VlAnswer(it, more_vl) ==
    IF ~it.asked THEN "none" ELSE IF more_vl THEN "more" ELSE "exhausted"

\* fault: the result of the last iteration is returned
ReturnedResult_Last(all) == all[Len(all)]

\* the result generate_test_case returns: result = results[0]
ReturnedResult(all) == all[1]

\* fault: the solver is reset whatever the incremental option says
EndOfCallReset_Always(n) == n + 1

\* if not Config().get_incremental(): self.path_solver.solver.reset()
EndOfCallReset(n) == IF config.incremental THEN n ELSE n + 1

\* an iteration after which the loop goes round again
GenContinue ==
    \E result \in TestPathResults, more_vl \in BOOLEAN :
        LET it == Iteration(result, more_vl)
        IN  /\ ~it.brk
            /\ IterationEffects(result, it)
            /\ gen_results' = Append(gen_results, result)
            /\ vl_last' = VlAnswer(it, more_vl)
            /\ UNCHANGED <<pc, vres, n_reset, last_result, visits_done,
                           coverVars, failed_assert>>

\* an iteration that leaves the loop: generate_test_case returns the first
\* result, and visit() goes on to record_stats and visit_result
GenBreak ==
    \E result \in TestPathResults, more_vl \in BOOLEAN :
        LET it == Iteration(result, more_vl)
            all == Append(gen_results, result)
        IN  /\ it.brk
            /\ IterationEffects(result, it)
            /\ gen_results' = <<>>
            /\ vl_last' = VlAnswer(it, more_vl)
            /\ n_reset' = EndOfCallReset(n_reset)
            /\ FinishVisit(path, ReturnedResult(all), num_test_cases + it.written)

---------------------------------------------------------------------------
(* The engine acts on the VisitResult *)

\* CONTINUE with onward edges: descend into a new frame, its edges pushed in
\* the reverse of the order preprocess_edges returned
EngineDescend ==
    /\ pc = "visited" /\ vres = CONTINUE
    /\ get_neighbors(dst[Last(path)]) # <<>>
    /\ stack' = Append(stack,
                  Reverse(preprocess_edges(path, get_neighbors(dst[Last(path)]))))
    /\ pc' = "loop"
    /\ UNCHANGED <<fixedVars, path, vres, cpVars, callVars, outputVars,
                   visitVars, coverVars, gen_results, all_paths, failed_assert>>

\* CONTINUE on a path with nothing to descend into, or BACKTRACK: the branch
\* is left through strategy.backtrack()
EngineBacktrack ==
    /\ pc = "visited"
    /\ \/ vres = BACKTRACK
       \/ vres = CONTINUE /\ get_neighbors(dst[Last(path)]) = <<>>
    /\ StrategyBacktrack
    /\ path' = Front(path)
    /\ pc' = "loop"
    /\ UNCHANGED <<fixedVars, stack, vres, callVars, outputVars, visitVars,
                   coverVars, gen_results, all_paths, failed_assert>>

\* the top frame has no sibling left: drop it and leave the edge that led
\* into it through strategy.backtrack()
EngineFrameDone ==
    /\ pc = "loop" /\ stack # <<>> /\ Last(stack) = <<>>
    /\ stack' = Front(stack)
    /\ IF path # <<>>
       THEN StrategyBacktrack /\ path' = Front(path)
       ELSE UNCHANGED <<cpVars, path>>
    /\ UNCHANGED <<fixedVars, pc, vres, callVars, outputVars, visitVars,
                   coverVars, gen_results, all_paths, failed_assert>>

\* the frame stack is exhausted: the traversal ends
EngineFinish ==
    /\ pc = "loop" /\ stack = <<>>
    /\ pc' = "done"
    /\ UNCHANGED <<fixedVars, stack, path, vres, cpVars, callVars, outputVars,
                   visitVars, coverVars, gen_results, all_paths, failed_assert>>

\* ABORT: start unwinding the whole stack
EngineAbort ==
    /\ pc = "visited" /\ vres = ABORT
    /\ pc' = "unwind"
    /\ UNCHANGED <<fixedVars, stack, path, vres, cpVars, callVars, outputVars,
                   visitVars, coverVars, gen_results, all_paths, failed_assert>>

\* unwinding: strategy.backtrack() for one frame already entered
EngineUnwind ==
    /\ pc = "unwind" /\ path # <<>>
    /\ StrategyBacktrack
    /\ path' = Front(path)
    /\ UNCHANGED <<fixedVars, stack, pc, vres, callVars, outputVars, visitVars,
                   coverVars, gen_results, all_paths, failed_assert>>

\* unwinding is complete: the run terminates
EngineAborted ==
    /\ pc = "unwind" /\ path = <<>>
    /\ stack' = <<>>
    /\ pc' = "done"
    /\ UNCHANGED <<fixedVars, path, vres, cpVars, callVars, outputVars,
                   visitVars, coverVars, gen_results, all_paths, failed_assert>>

Next ==
    \/ VisitSkip
    \/ VisitQuickSuccess
    \/ VisitQuickAssert
    \/ VisitEnterLoop
    \/ VisitConfigAssert
    \/ GenContinue
    \/ GenBreak
    \/ EngineDescend
    \/ EngineBacktrack
    \/ EngineFrameDone
    \/ EngineFinish
    \/ EngineAbort
    \/ EngineUnwind
    \/ EngineAborted

Spec == Init /\ [][Next]_vars

\* the parser-graph traversal: ParserGraphVisitor.visit always answers
\* CONTINUE, so the engine never takes its BACKTRACK-result or ABORT steps
NextParser ==
    \/ ParserVisit
    \/ EngineDescend
    \/ EngineBacktrack
    \/ EngineFrameDone
    \/ EngineFinish

\* the engine is a sequential loop: it keeps running while a step is possible
SpecParser == InitParser /\ [][NextParser]_vars /\ WF_vars(NextParser)

---------------------------------------------------------------------------
(* ParserGraphVisitor.preprocess_edges applied to drawn inputs *)

\* connected edge sequences of the parser graph, the empty prefix included
PrefixInputs ==
    {p \in UNION {[1..n -> ParserEdges] : n \in 0..MaxLen} :
        \A i \in 1..(Len(p) - 1) : dst[p[i]] = src[p[i + 1]]}

\* candidate lists: distinct edges, error transitions and ordinary ones, in
\* any order
OnwardPool == {15, 16, 17}
OnwardInputs ==
    {l \in UNION {[1..n -> OnwardPool] : n \in 0..MaxLen} :
        \A i, j \in 1..Len(l) : i # j => l[i] # l[j]}

InitPre ==
    /\ strategy = "parser"
    /\ config = DefaultConfig
    /\ hlir \in Hlirs
    /\ pre_call \in [prefix : PrefixInputs, edges : OnwardInputs,
                     result : {<<>>}, called : {FALSE}]
    /\ InitCommon
    /\ pc = "idle"
    /\ stack = <<>>

ApplyPreprocess ==
    /\ pc = "idle"
    /\ ~pre_call.called
    /\ pre_call' = [pre_call EXCEPT
                      !.result = Parser_preprocess_edges(pre_call.prefix,
                                                         pre_call.edges),
                      !.called = TRUE]
    /\ UNCHANGED <<strategy, config, hlir, engineVars, cpVars, callVars,
                   outputVars, visitVars, coverVars, gen_results, all_paths,
                   failed_assert>>

NextPre == ApplyPreprocess

SpecPre == InitPre /\ [][NextPre]_vars

---------------------------------------------------------------------------
(* record_stats and visit_result called, as visit() calls them, on arbitrary *)
(* control paths, results and counter values                                 *)

\* the control paths drawn: two incomplete ones and a complete one
CallPaths == {<<1>>, <<1, 2>>, <<1, 2, 4>>}

InitRecord ==
    /\ strategy = "path"
    /\ config \in {[DefaultConfig EXCEPT !.num_test_cases = a,
                                         !.max_paths_per_parser_path = b] :
                       a \in CapValues, b \in PathsCapValues}
    /\ hlir = DefaultHlir
    /\ pre_call = NoCall
    /\ path = <<>>
    /\ vres = CONTINUE
    /\ checkpoints = <<>>
    /\ pushes = 0 /\ pops = 0 /\ pop_empty = FALSE
    /\ n_constraints = 0 /\ n_quick = 0 /\ n_solve = 0 /\ n_reset = 0
    /\ num_test_cases \in 0..(MaxCap + 1)
    /\ writes = num_test_cases /\ table_paths = 0 /\ call_writes = 0
    /\ gen_results = <<>>
    /\ quick = "NONE"
    /\ last_result = "NONE"
    /\ visits_done = 0
    /\ vl_last = "none"
    /\ stats = NoStats
    /\ results = <<>>
    /\ success_path_count = 0
    /\ done_edges = {}
    /\ edge_visits = [e \in Edges |-> 0]
    /\ all_paths = <<>>
    /\ failed_assert = "none"
    /\ pc = "call"
    /\ stack = <<>>

\* self.record_stats(control_path, is_complete_control_path, result), result
\* being what generate_test_case returned for control_path
RecordStatsCall ==
    \E control_path \in CallPaths, result \in TestPathResults :
        /\ pc = "call"
        /\ visits_done < MaxCalls
        /\ path' = control_path
        /\ last_result' = result
        /\ record_stats(control_path, IsComplete(strategy, control_path), result)
        /\ pc' = "recorded"
        /\ UNCHANGED <<fixedVars, stack, vres, cpVars, callVars, outputVars,
                       quick, visits_done, vl_last, done_edges, edge_visits,
                       gen_results, all_paths, failed_assert>>

\* return self.visit_result(result)
VisitResultCall ==
    /\ pc = "recorded"
    /\ vres' = visit_result(last_result, num_test_cases, success_path_count)
    /\ visits_done' = visits_done + 1
    /\ pc' = "call"
    /\ UNCHANGED <<fixedVars, stack, path, cpVars, callVars, outputVars,
                   quick, last_result, vl_last, coverVars, gen_results,
                   all_paths, failed_assert>>

NextRecord == RecordStatsCall \/ VisitResultCall

SpecRecord == InitRecord /\ [][NextRecord]_vars

---------------------------------------------------------------------------
(* Properties *)

ControlRun == strategy \in {"path", "edge"}

\* C1: when a control-graph traversal has run to its end, by exhausting the
\* frame stack or by unwinding after ABORT, the pushes made by visit and by
\* generate_test_case equal the pops: no checkpoint is left outstanding.
C1_PushesEqualPops ==
    (ControlRun /\ pc = "done") =>
        /\ pushes = pops
        /\ checkpoints = <<>>
        /\ ~pop_empty

\* a run that ABORT ended three frames deep, after generate_test_case had
\* pushed checkpoints of its own
C1_Witness ==
    /\ ControlRun /\ pc = "done" /\ vres = ABORT
    /\ pushes > visits_done
    /\ visits_done >= 3
    /\ pops >= 3

\* C2: between strategy calls the outstanding checkpoints are exactly those
\* pushed by the visits of the frames entered and not yet backtracked, in
\* the order of the traversal stack (so backtrack pops the checkpoint of the
\* frame it abandons), and pop was never called on an empty stack.
C2_CheckpointsMatchFrames ==
    (ControlRun /\ pc \in {"loop", "visited", "unwind", "done"}) =>
        /\ ~pop_empty
        /\ Len(checkpoints) = Len(path)
        /\ \A i \in 1..Len(path) :
              checkpoints[i] = [kind |-> "visit", path |-> SubSeq(path, 1, i)]

\* three frames deep, after backtracks and after checkpoints taken inside
\* generate_test_case
C2_Witness ==
    /\ ControlRun /\ pc = "visited"
    /\ Len(path) = 3
    /\ pops >= 3
    /\ pushes > visits_done

\* C3: with a configured non-zero global cap the global test-case counter
\* never exceeds it, and with a configured non-zero per-path cap no call of
\* generate_test_case writes more test cases than that cap.
C3_CapsRespected ==
    ControlRun =>
        /\ config.num_test_cases \notin {None, 0}
              => num_test_cases <= config.num_test_cases
        /\ config.max_test_cases_per_path \notin {None, 0}
              => call_writes <= config.max_test_cases_per_path

\* both caps reached, the global one over more than one call
C3_Witness ==
    /\ ControlRun
    /\ config.num_test_cases = 2 /\ num_test_cases = 2
    /\ config.max_test_cases_per_path = 1 /\ call_writes = 1
    /\ visits_done >= 2

\* C4: under EdgeCoverage no step removes an edge from done_edges or lowers
\* an edge's visit count.
C4_CoverageMonotonic ==
    [][/\ done_edges \subseteq done_edges'
       /\ \A e \in Edges : edge_visits[e] <= edge_visits'[e]]_vars

\* several edges done and an edge visited twice
C4_Witness ==
    /\ strategy = "edge"
    /\ Cardinality(done_edges) >= 3
    /\ \E e \in Edges : edge_visits[e] >= 2

\* C5: under EdgeCoverage a visit adds edges to done_edges only when its
\* result is a recordable SUCCESS on a complete path, and every edge it adds
\* is the path's final edge or has all the outgoing edges of its destination
\* done.
C5_DoneOnlyWhenCovered ==
    [][done_edges' # done_edges =>
          /\ strategy = "edge"
          /\ last_result' = SUCCESS
          /\ IsComplete(strategy, path')
          /\ \A e \in done_edges' \ done_edges :
                \/ e = Last(path')
                \/ /\ e \in Range(path')
                   /\ \A ce \in Range(get_neighbors(dst[e])) :
                         ce \in done_edges']_vars

\* a non-final edge is done while its sibling is not, right after a visit
\* that added edges
C5_Witness ==
    /\ strategy = "edge" /\ pc = "visited" /\ last_result = SUCCESS
    /\ Len(path) = 3
    /\ path[2] \in done_edges
    /\ path[1] \notin done_edges
    /\ edge_visits[path[2]] = 2

\* C6: under EdgeCoverage, after a visit with a recordable SUCCESS on a
\* complete path, every non-final edge of the path whose destination has all
\* its outgoing edges done is done (doneness added for a later edge counts
\* for an earlier one).
C6_DonePropagated ==
    (strategy = "edge" /\ pc = "visited" /\ last_result = SUCCESS
        /\ IsComplete(strategy, path)) =>
        \A i \in 1..(Len(path) - 1) :
            (\A ce \in Range(get_neighbors(dst[path[i]])) : ce \in done_edges)
                => path[i] \in done_edges

\* the shared prefix edge path[1] becomes done in the recording step of a
\* later path: that step made path[2], the last outgoing edge of path[1]'s
\* destination, done, and the doneness carried on to path[1]
C6_Witness ==
    /\ strategy = "edge" /\ pc = "visited" /\ last_result = SUCCESS
    /\ Len(path) = 3
    /\ edge_visits[path[1]] = 3
    /\ edge_visits[path[2]] = 1
    /\ path[2] \in done_edges
    /\ path[1] \in done_edges
    /\ success_path_count = 3

\* the nodes along a prefix: its start node, then each edge's destination
NodesAlong(prefix) ==
    IF prefix = <<>> THEN <<>>
    ELSE <<src[prefix[1]]>> \o [i \in 1..Len(prefix) |-> dst[prefix[i]]]

\* the extractions of stack s summed over the nodes along a prefix, the sink
\* contributing nothing
ExtractionCount(s, prefix) ==
    LET nodes == NodesAlong(prefix)
        at(n) == IF n = "sink" THEN 0
                 ELSE Cardinality({k \in 1..Len(hlir.extracts[n]) :
                                      hlir.extracts[n][k] = s})
        sum[i \in 0..Len(nodes)] ==
            IF i = 0 THEN 0 ELSE sum[i - 1] + at(nodes[i])
    IN  sum[Len(nodes)]

ExceedsSomeStack(prefix) ==
    \E s \in Stacks : ExtractionCount(s, prefix) > hlir.size[s]

\* C7: ParserGraphVisitor.preprocess_edges returns exactly the error
\* transitions among the candidates, in their order, when some header
\* stack's extraction count along the prefix is strictly greater than its
\* declared size, and the candidates unchanged otherwise.
C7_PreprocessEdges ==
    pre_call.called =>
        LET IsError(e) == e \in {15, 17}
        IN  pre_call.result =
                IF ExceedsSomeStack(pre_call.prefix)
                THEN SelectSeq(pre_call.edges, IsError)
                ELSE pre_call.edges

\* stack bound 2 and a prefix with 3 extractions: of an error edge, an
\* ordinary edge and another error edge, the two error edges come back
C7_Witness ==
    /\ pre_call.called
    /\ hlir.size["h"] = 2
    /\ ExtractionCount("h", pre_call.prefix) = 3
    /\ pre_call.edges = <<17, 16, 15>>
    /\ pre_call.result = <<17, 15>>

\* every complete path of the parser graph from its entry
CompletePaths ==
    {p \in UNION {[1..n -> ParserEdges] : n \in 1..Cardinality(ParserStates)} :
        /\ src[p[1]] = "start"
        /\ dst[p[Len(p)]] = "sink"
        /\ \A i \in 1..(Len(p) - 1) : dst[p[i]] = src[p[i + 1]]}

\* the complete paths that take an ordinary transition only from a prefix
\* that over-extracts no header stack
LegalCompletePaths ==
    {p \in CompletePaths :
        \A i \in 1..Len(p) :
            ExceedsSomeStack(SubSeq(p, 1, i - 1)) => p[i] \in {15, 17}}

ListsExactlyOnce(paths, l) ==
    /\ \A p \in paths : Cardinality({i \in 1..Len(l) : l[i] = p}) = 1
    /\ \A i \in 1..Len(l) : l[i] \in paths

\* C8 as stated: when the parser enumeration has terminated, all_paths holds
\* every complete path from the entry exactly once.
C8_AllCompletePaths ==
    (strategy = "parser" /\ pc = "done") =>
        ListsExactlyOnce(CompletePaths, all_paths)

\* C8, amended: the parser enumeration terminates, and all_paths then holds
\* exactly once every complete path that takes no ordinary transition after
\* a header stack was over-extracted (and no other path).
C8_TerminatesWithLegalPaths ==
    <>(pc = "done" /\ ListsExactlyOnce(LegalCompletePaths, all_paths))

\* a terminated enumeration that dropped an over-extracting path and kept
\* the others
C8_Witness ==
    /\ strategy = "parser" /\ pc = "done"
    /\ Len(all_paths) >= 3
    /\ Len(all_paths) < Cardinality(CompletePaths)

C10_QuickSuccessFrame ==
    [][(n_quick' = n_quick + 1 /\ quick' = SUCCESS
            /\ ~IsComplete(strategy, path')) =>
          /\ pc' = "visited"
          /\ last_result' = SUCCESS
          /\ num_test_cases' = num_test_cases
          /\ writes' = writes
          /\ table_paths' = table_paths
          /\ n_solve' = n_solve
          /\ n_reset' = n_reset
          /\ checkpoints' = Append(checkpoints, [kind |-> "visit", path |-> path'])
          /\ pushes' = pushes + 1
          /\ pops' = pops]_vars

\* the pre-check succeeded on an incomplete path two edges long, in a run
\* that had already written test cases
C10_Witness ==
    /\ ControlRun /\ pc = "visited"
    /\ quick = SUCCESS /\ last_result = SUCCESS
    /\ Len(path) = 2
    /\ num_test_cases > 0
    /\ writes > 0

---------------------------------------------------------------------------
(* C11: the order in which EdgeCoverage explores the siblings of a frame *)

\* the order in which the engine takes the edges of a frame: from its end
ExploreOrder(frame) == Reverse(frame)

\* the node whose onward edges the top frame holds
FrameNode == IF path = <<>> THEN StartNode(strategy) ELSE dst[Last(path)]

\* the top frame was pushed by the last step and no edge was taken from it yet
FreshFrame ==
    /\ pc = "loop" /\ stack # <<>>
    /\ Len(stack) = Len(path) + 1
    /\ Len(Last(stack)) = Len(get_neighbors(FrameNode))

\* not-done edges before done edges, each group by ascending visit count
LeastVisitsFirst(order) ==
    \A i, j \in 1..Len(order) :
        i < j =>
            /\ order[i] \in done_edges => order[j] \in done_edges
            /\ (order[i] \in done_edges <=> order[j] \in done_edges)
                   => edge_visits[order[i]] <= edge_visits[order[j]]

---------------------------------------------------------------------------
(* C12: a global cap of 0 or unset *)

GlobalCapUnbounded == config.num_test_cases \in {None, 0}

\* C12: in a run whose global test-case cap is 0 or unset, visit_result never
\* returns ABORT and no iteration of the generation loop stops on account of
\* the global cap, whatever the counter's value
C12_UnboundedNeverAborts ==
    (ControlRun /\ GlobalCapUnbounded) =>
        /\ vres # ABORT
        /\ pc = "gen" => ~GlobalCapStops(num_test_cases + 1)
---------------------------------------------------------------------------
(* C13: the generation loop when no cap applies *)

PathCapUnbounded == config.max_test_cases_per_path \in {None, 0}

\* C13: whenever the per-path cap is unbounded (0 or unset) and the global cap
\* is unbounded, the generation loop ends no later than the first iteration at
\* which the solver reports that no further VL-extraction constraint can be
\* added: the loop is never about to go round again after such a report
C13_LoopEndsAtVlExhaustion ==
    (ControlRun /\ PathCapUnbounded /\ GlobalCapUnbounded /\ pc = "gen")
        => vl_last # "exhausted"
---------------------------------------------------------------------------
(* C14: the precedence of visit_result *)

\* the global counter has reached a configured global cap
GlobalCapReached ==
    config.num_test_cases # None /\ num_test_cases >= config.num_test_cases

\* the success-path counter has reached a configured per-parser-path cap
PathsCapReached ==
    /\ config.max_paths_per_parser_path # None
    /\ success_path_count >= config.max_paths_per_parser_path

\* visit_result has just returned vres for last_result
VisitResultReturned == pc = "call" /\ visits_done > 0

\* C14: visit_result returns ABORT whenever the global counter has reached a
\* configured cap, whatever the result and the success-path counter; otherwise
\* BACKTRACK when the success-path counter has reached the configured
\* per-parser-path cap or the result is not SUCCESS; CONTINUE otherwise
C14_VisitResultPrecedence ==
    VisitResultReturned =>
        vres = IF GlobalCapReached THEN ABORT
               ELSE IF PathsCapReached \/ last_result # SUCCESS THEN BACKTRACK
               ELSE CONTINUE

\* both caps reached with a result that is not SUCCESS: ABORT wins
C14_Witness ==
    /\ VisitResultReturned
    /\ config.num_test_cases >= 1 /\ GlobalCapReached
    /\ config.max_paths_per_parser_path >= 1 /\ PathsCapReached
    /\ last_result = NO_PACKET_FOUND
    /\ vres = ABORT

---------------------------------------------------------------------------
(* C15: the recording policy of record_stats *)

\* the result is one record_stats stores: SUCCESS on a complete path, or any
\* result other than SUCCESS
Recordable(result, complete) == (result = SUCCESS /\ complete) \/ result # SUCCESS

\* C15: a call of record_stats stores its result under the path's key exactly
\* when the result is SUCCESS on a complete path or is not SUCCESS, replacing
\* what the key held, and leaves every other entry alone; it increments the
\* success-path counter exactly for a SUCCESS on a complete path; no entry
\* holds SUCCESS for an incomplete path
C15_RecordingPolicy ==
    [][pc' = "recorded" =>
        LET complete == IsComplete(strategy, path')
            stored == Recordable(last_result', complete)
        IN  /\ DOMAIN results' =
                  IF stored THEN DOMAIN results \cup {path'} ELSE DOMAIN results
            /\ \A p \in DOMAIN results' :
                  /\ results'[p] = IF stored /\ p = path' THEN last_result'
                                   ELSE results[p]
                  /\ results'[p] = SUCCESS => IsComplete(strategy, p)
            /\ success_path_count' =
                  IF last_result' = SUCCESS /\ complete
                  THEN success_path_count + 1
                  ELSE success_path_count]_vars

\* the complete path was recorded with SUCCESS by one call and the entry was
\* replaced by NO_PACKET_FOUND by the next
C15_Witness ==
    /\ pc = "recorded"
    /\ IsComplete(strategy, path)
    /\ last_result = NO_PACKET_FOUND
    /\ DOMAIN results = {path} /\ results[path] = NO_PACKET_FOUND
    /\ stats.stats[SUCCESS] = 1 /\ success_path_count = 1
---------------------------------------------------------------------------
(* C16: the solver reset at the end of generate_test_case *)

\* no call of generate_test_case is under way
BetweenCalls == pc \in {"loop", "visited", "unwind", "done"}

\* C16 as stated: unless incremental solving is configured, every call of
\* generate_test_case that has returned has reset the solver, the return at
\* the pre-check's SUCCESS included; with incremental solving no call resets
C16_EveryReturnResets ==
    (ControlRun /\ BetweenCalls) =>
        n_reset = IF config.incremental THEN 0 ELSE n_quick

\* C16, amended: a step resets the solver, once, exactly when it leaves the
\* generation loop and incremental solving is not configured; the return at
\* the pre-check's SUCCESS and every step under incremental solving reset
\* nothing
C16_ResetAtLoopExit ==
    [][ControlRun =>
         n_reset' = IF pc = "gen" /\ pc' # "gen" /\ ~config.incremental
                    THEN n_reset + 1
                    ELSE n_reset]_vars

\* without incremental solving, a call has returned through the loop with a
\* reset and another has returned at the pre-check without one
C16_Witness ==
    /\ ControlRun /\ ~config.incremental
    /\ pc = "visited"
    /\ n_reset >= 1
    /\ n_quick > n_reset
---------------------------------------------------------------------------
(* C17: the skip of EdgeCoverageGraphVisitor.visit *)

\* the final edge of p is done and every edge of p has been visited
FinalDoneAllVisited(p) ==
    /\ Last(p) \in done_edges
    /\ \A e \in Range(p) : edge_visits[e] > 0

\* C17: a visit of EdgeCoverage whose path ends in a done edge and has every
\* edge visited returns BACKTRACK at once: no solver query, no test case, no
\* change of coverage state, statistics or result map; every other visit
\* submits the path's constraints and runs the pre-check, as generate_test_case
\* does under PathCoverage
C17_SkipExactlyWhenCovered ==
    [][(strategy = "edge" /\ Len(path') = Len(path) + 1) =>
         IF FinalDoneAllVisited(path')
         THEN /\ vres' = BACKTRACK /\ pc' = "visited"
              /\ UNCHANGED <<callVars, outputVars, coverVars>>
         ELSE /\ n_constraints' = n_constraints + 1
              /\ n_quick' = n_quick + 1]_vars

\* a visit has just been skipped, after visits that were not
C17_Witness ==
    /\ strategy = "edge"
    /\ pc = "visited" /\ vres = BACKTRACK
    /\ last_result = "NONE" /\ quick = "NONE"
    /\ FinalDoneAllVisited(path)
    /\ n_quick < visits_done
---------------------------------------------------------------------------
(* C18: table-consolidation mode *)

\* C18: in table-consolidation mode no step writes a test case or changes the
\* global counter, no iteration of the generation loop is followed by another,
\* and an iteration registers its path with the table-consolidation
\* collaborator once when its result is recordable and not at all otherwise;
\* nothing else registers
C18_ConsolidationFrame ==
    [][(ControlRun /\ config.do_consolidate_tables) =>
         /\ writes' = writes
         /\ num_test_cases' = num_test_cases
         /\ gen_results' = <<>>
         /\ table_paths' =
               IF /\ n_solve' = n_solve + 1
                  /\ Recordable(last_result', IsComplete(strategy, path'))
               THEN table_paths + 1
               ELSE table_paths]_vars

\* in table-consolidation mode one call has registered its path and another,
\* whose result was not recordable, has registered nothing
C18_Witness ==
    /\ ControlRun /\ config.do_consolidate_tables
    /\ pc = "visited"
    /\ table_paths >= 1
    /\ n_solve > table_paths
    /\ writes = 0 /\ num_test_cases = 0
---------------------------------------------------------------------------
(* C19: the result generate_test_case returns *)

\* C19: when generate_test_case leaves the generation loop after more than one
\* iteration, the result it returns, which record_stats, the done-edge update
\* and visit_result then use, is the classification of the first iteration
C19_FirstResultReturned ==
    [][(ControlRun /\ pc = "gen" /\ pc' # "gen" /\ gen_results # <<>>)
          => last_result' = gen_results[1]]_vars

\* a call on a complete path with no cap set returned SUCCESS after two or
\* more iterations: with every result recordable and no cap, only an
\* iteration classified NO_PACKET_FOUND ends the loop, so the last
\* classification differed from the one returned
C19_Witness ==
    /\ ControlRun /\ pc = "visited"
    /\ IsComplete(strategy, path)
    /\ config.num_test_cases = None
    /\ config.max_test_cases_per_path = None
    /\ ~config.do_consolidate_tables
    /\ call_writes >= 2
    /\ last_result = SUCCESS
    /\ results[path] = SUCCESS
---------------------------------------------------------------------------
(* C20: done edges have been visited *)

\* C20: under EdgeCoverage every edge in done_edges has a visit count of at
\* least 1, and the assertion that a recordable SUCCESS comes with a complete
\* control path (line 310) never fails
C20_DoneEdgesVisited ==
    strategy = "edge" =>
        /\ \A e \in done_edges : edge_visits[e] >= 1
        /\ failed_assert # "L310"

\* a recordable SUCCESS on a complete path has passed the assertion, and the
\* done edges reach back to the entry edge, visited by each of the three paths
\* that succeeded
C20_Witness ==
    /\ strategy = "edge" /\ pc = "visited"
    /\ last_result = SUCCESS /\ IsComplete(strategy, path)
    /\ failed_assert = "none"
    /\ done_edges = ControlEdges
    /\ \A e \in ControlEdges : edge_visits[e] >= 1
=============================================================================
